---- MODULE Spec2Model ----
(***************************************************************************)
(* Workspace / page-hierarchy core of the notion-clone backend:            *)
(*   WorkspaceRepository (MongoDB collection "workspaces"),                *)
(*   CreateWorkspaceController and UpdatePageTitleByPageIdController.      *)
(*                                                                         *)
(* Abstractions.  A workspace id is a natural number: the positive ones    *)
(* stand for well-formed ObjectId strings, 0 for any other string.  A      *)
(* string (title, reference, path) is a sequence of one-character strings. *)
(* A MongoDB document is a record whose domain is the set of fields the    *)
(* document has; a collection is a function from the ids present to their  *)
(* documents.  A scalar array element s is the record [scalar |-> s], so   *)
(* that a query document can be matched against scalars and documents      *)
(* alike.  Timestamps are the constant "now".                              *)
(***************************************************************************)
EXTENDS Integers, Sequences, FiniteSets, TLC

\* ------------------------------------------------------------------ bounds
MaxWorkspaces == 2      \* well-formed workspace ids are 1..MaxWorkspaces
MaxPageIds == 2         \* page ids are 1..MaxPageIds
MaxTotalPages == 2      \* cap on the page-metadata entries addPage calls may build up
MaxReqs == 2            \* controller requests that can be in flight

\* ------------------------------------------------------------- input sets
InvalidId == 0
WorkspaceIds == 1..MaxWorkspaces
AnyWorkspaceId == WorkspaceIds \cup {InvalidId}
PageIds == 1..MaxPageIds
Users == {"u1", "u2"}

Range(s) == {s[i] : i \in DOMAIN s}

\* ---------------------------------------------------------------- strings
Digit == <<"1", "2", "3", "4", "5", "6", "7", "8", "9">>

RECURSIVE SplitFrom(_, _, _, _)
SplitFrom(s, sep, i, cur) ==
  IF i > Len(s) THEN <<cur>>
  ELSE IF s[i] = sep THEN <<cur>> \o SplitFrom(s, sep, i + 1, <<>>)
  ELSE SplitFrom(s, sep, i + 1, Append(cur, s[i]))

\* String.prototype.split(sep) for a one-character separator
Split(s, sep) == SplitFrom(s, sep, 1, <<>>)

RECURSIVE Join(_, _)
\* Array.prototype.join(sep)
Join(parts, sep) ==
  IF Len(parts) = 0 THEN <<>>
  ELSE IF Len(parts) = 1 THEN parts[1]
  ELSE parts[1] \o <<sep>> \o Join(Tail(parts), sep)

Pop_First(parts) == parts[1]
\* Array.prototype.pop(): the last element
Pop(parts) == parts[Len(parts)]

NullPath == <<"null">>

DefaultTitle ==
  <<"n", "o", "t", "i", "o", "n", " ", "c", "l", "o", "n", "e", " ",
    "p", "r", "o", "j", "e", "c", "t">>
DefaultIcon == "1F575"

\* ------------------------------------------------ MongoDB values, operators
Scalar(v) == [scalar |-> v]
EmptyDoc == [f \in {} |-> 0]
HasField(doc, f) == f \in DOMAIN doc
SetField(doc, f, v) == [g \in DOMAIN doc \cup {f} |-> IF g = f THEN v ELSE doc[g]]
\* $set: the fields of data replace or extend those of doc
SetFields(doc, data) ==
  [g \in DOMAIN doc \cup DOMAIN data |-> IF g \in DOMAIN data THEN data[g] ELSE doc[g]]
\* $addToSet on one array field: appends unless an equal element is there
AddToSet(doc, f, v) ==
  IF ~HasField(doc, f) THEN SetField(doc, f, <<v>>)
  ELSE IF v \in Range(doc[f]) THEN doc
  ELSE SetField(doc, f, Append(doc[f], v))
\* a query document matched against one array element
MatchesQuery(e, q) == \A f \in DOMAIN q : f \in DOMAIN e /\ e[f] = q[f]
Pull_Inverted(doc, f, q) ==
  IF ~HasField(doc, f) THEN doc
  ELSE SetField(doc, f, SelectSeq(doc[f], LAMBDA e : MatchesQuery(e, q)))
\* $pull with a query document: removes the elements the query matches
Pull(doc, f, q) ==
  IF ~HasField(doc, f) THEN doc
  ELSE SetField(doc, f, SelectSeq(doc[f], LAMBDA e : ~MatchesQuery(e, q)))
\* the filter {'<f>.<g>': v} with v not null: some element of array f has g = v
AnyElement(doc, f, g, v) ==
  HasField(doc, f) /\ \E i \in DOMAIN doc[f] : g \in DOMAIN doc[f][i] /\ doc[f][i][g] = v

Put(coll, id, doc) == [i \in DOMAIN coll \cup {id} |-> IF i = id THEN doc ELSE coll[i]]
Delete(coll, id) == [i \in DOMAIN coll \ {id} |-> coll[i]]

\* ------------------------------------------------------- mapper helpers
isValidObjectId(id) == id # InvalidId
\* new ObjectId(string) raises on a string that is no well-formed id
stringToObjectIdThrows(id) == ~isValidObjectId(id)
mapDocument(id, doc) == [kind |-> "doc", val |-> SetField(doc, "id", id)]
\* mapDocument(null): the result of mapping an absent document
mapDocumentOfNull == {[kind |-> "null"], [kind |-> "error"]}

Null == [kind |-> "null"]
Undefined == [kind |-> "undefined"]
Void == [kind |-> "void"]
Error == [kind |-> "error"]
Array(s) == [kind |-> "array", val |-> s]
\* the outcome of one repository call: the collection afterwards, the value
\* returned (or Error when it raised), the store operations it issued
Outcome(ws, ret, ops) == [ws |-> ws, ret |-> ret, ops |-> ops]

\* ------------------------------------------------------ WorkspaceRepository
\* Each operation maps the collection and its arguments to the set of its
\* possible outcomes.

\* insertOne({...workspaceData, createdAt}) under a generated id
createWorkspace(ws, newId, workspaceData) ==
  {Outcome(Put(ws, newId, SetFields(workspaceData, [createdAt |-> "now"])),
           [kind |-> "id", val |-> newId], <<"insertOne">>)}

UpsertAndReturn_NoUpsert(ws, workspaceId, new) ==
  IF workspaceId \in DOMAIN ws
  THEN {Outcome(Put(ws, workspaceId, new), mapDocument(workspaceId, new), <<"findOneAndUpdate">>)}
  ELSE {Outcome(ws, Null, <<"findOneAndUpdate">>)}
\* findOneAndUpdate(filter, update, {upsert: true, returnDocument: 'after'})
UpsertAndReturn(ws, workspaceId, new) ==
  {Outcome(Put(ws, workspaceId, new), mapDocument(workspaceId, new), <<"findOneAndUpdate">>)}

\* findOneAndUpdate(filter, update, {returnDocument: 'after'}): no upsert
UpdateAndReturn(ws, workspaceId, new) ==
  IF workspaceId \in DOMAIN ws
  THEN {Outcome(Put(ws, workspaceId, new), mapDocument(workspaceId, new), <<"findOneAndUpdate">>)}
  ELSE {Outcome(ws, r, <<"findOneAndUpdate">>) : r \in mapDocumentOfNull}

Current(ws, workspaceId) == IF workspaceId \in DOMAIN ws THEN ws[workspaceId] ELSE EmptyDoc

\* $push in place of $addToSet
addMemberByWorkspaceId_Push(ws, workspaceId, memberId) ==
  IF stringToObjectIdThrows(workspaceId) THEN {Outcome(ws, Error, <<>>)}
  ELSE LET doc == Current(ws, workspaceId)
       IN  UpsertAndReturn(ws, workspaceId,
             SetField(doc, "members",
                      Append(IF HasField(doc, "members") THEN doc.members ELSE <<>>,
                             Scalar(memberId))))

addMemberByWorkspaceId(ws, workspaceId, memberId) ==
  IF stringToObjectIdThrows(workspaceId) THEN {Outcome(ws, Error, <<>>)}
  ELSE UpsertAndReturn(ws, workspaceId,
                       AddToSet(Current(ws, workspaceId), "members", Scalar(memberId)))

\* addPage without upsert: true
addPage_NoUpsert(ws, workspaceId, pageData) ==
  IF stringToObjectIdThrows(workspaceId) THEN {Outcome(ws, Error, <<>>)}
  ELSE UpdateAndReturn(ws, workspaceId, AddToSet(Current(ws, workspaceId), "pages", pageData))
\* the page list written back whole instead of $addToSet
addPage_Set(ws, workspaceId, pageData) ==
  IF stringToObjectIdThrows(workspaceId) THEN {Outcome(ws, Error, <<>>)}
  ELSE UpsertAndReturn(ws, workspaceId, SetField(Current(ws, workspaceId), "pages", <<pageData>>))
addPage(ws, workspaceId, pageData) ==
  IF stringToObjectIdThrows(workspaceId) THEN {Outcome(ws, Error, <<>>)}
  ELSE UpsertAndReturn(ws, workspaceId, AddToSet(Current(ws, workspaceId), "pages", pageData))

getAllMembersByWorkspaceId(ws, workspaceId) ==
  IF ~isValidObjectId(workspaceId) THEN {Outcome(ws, Null, <<>>)}
  ELSE IF workspaceId \in DOMAIN ws
  THEN {Outcome(ws, IF HasField(ws[workspaceId], "members")
                    THEN Array(ws[workspaceId].members) ELSE Undefined, <<"findOne">>)}
  ELSE {Outcome(ws, Null, <<"findOne">>)}

\* the filter {'pages.path': null}: some element of pages has a null (or no)
\* path, or the document has no pages field; whether an empty pages array
\* matches is left open (both answers are outcomes)
MatchesNullPath(doc) ==
  IF ~HasField(doc, "pages") THEN {TRUE}
  ELSE IF doc.pages = <<>> THEN {TRUE, FALSE}
  ELSE {\E i \in DOMAIN doc.pages : doc.pages[i].path = NullPath}

\* the validity check left out
getAllRootPages_Unchecked(ws, workspaceId) ==
  IF stringToObjectIdThrows(workspaceId) THEN {Outcome(ws, Error, <<>>)}
  ELSE IF workspaceId \in DOMAIN ws
  THEN {Outcome(ws, IF m THEN (IF HasField(ws[workspaceId], "pages")
                               THEN Array(ws[workspaceId].pages) ELSE Undefined)
                    ELSE Null, <<"findOne">>) : m \in MatchesNullPath(ws[workspaceId])}
  ELSE {Outcome(ws, Null, <<"findOne">>)}

getAllRootPages(ws, workspaceId) ==
  IF ~isValidObjectId(workspaceId) THEN {Outcome(ws, Null, <<>>)}
  ELSE IF workspaceId \in DOMAIN ws
  THEN {Outcome(ws, IF m THEN (IF HasField(ws[workspaceId], "pages")
                               THEN Array(ws[workspaceId].pages) ELSE Undefined)
                    ELSE Null, <<"findOne">>) : m \in MatchesNullPath(ws[workspaceId])}
  ELSE {Outcome(ws, Null, <<"findOne">>)}

\* `/,${pageReference},/`
PathQuery(pageReference) == <<"/", ",">> \o pageReference \o <<",", "/">>

\* the check of the first lookup's result left out: reading pages of null raises
getChildrensByPageId_NoCheck(ws, workspaceId, pageId) ==
  IF stringToObjectIdThrows(workspaceId) THEN {Outcome(ws, Error, <<>>)}
  ELSE IF ~(workspaceId \in DOMAIN ws /\ AnyElement(ws[workspaceId], "pages", "id", pageId))
  THEN {Outcome(ws, Error, <<"findOne">>)}
  ELSE LET pageReference == ws[workspaceId].pages[1].reference
           pathQuery == PathQuery(pageReference)
       IN  IF AnyElement(ws[workspaceId], "pages", "path", pathQuery)
           THEN {Outcome(ws, Array(ws[workspaceId].pages), <<"findOne", "findOne">>)}
           ELSE {Outcome(ws, Null, <<"findOne", "findOne">>)}

getChildrensByPageId(ws, workspaceId, pageId) ==
  IF stringToObjectIdThrows(workspaceId) THEN {Outcome(ws, Error, <<>>)}
  ELSE IF ~(workspaceId \in DOMAIN ws /\ AnyElement(ws[workspaceId], "pages", "id", pageId))
  THEN {Outcome(ws, Null, <<"findOne">>)}
  ELSE LET pageReference == ws[workspaceId].pages[1].reference
           pathQuery == PathQuery(pageReference)
       IN  IF AnyElement(ws[workspaceId], "pages", "path", pathQuery)
           THEN {Outcome(ws, Array(ws[workspaceId].pages), <<"findOne", "findOne">>)}
           ELSE {Outcome(ws, Null, <<"findOne", "findOne">>)}

getWorkspaceById(ws, workspaceId) ==
  IF ~isValidObjectId(workspaceId) THEN {Outcome(ws, Null, <<>>)}
  ELSE IF workspaceId \in DOMAIN ws
  THEN {Outcome(ws, mapDocument(workspaceId, ws[workspaceId]), <<"findOne">>)}
  ELSE {Outcome(ws, Null, <<"findOne">>)}

\* the document replaced by the given data instead of $set
updateWorkspace_Replace(ws, workspaceId, workspaceData) ==
  IF stringToObjectIdThrows(workspaceId) THEN {Outcome(ws, Error, <<>>)}
  ELSE UpsertAndReturn(ws, workspaceId, SetFields(workspaceData, [updatedAt |-> "now"]))

updateWorkspace(ws, workspaceId, workspaceData) ==
  IF stringToObjectIdThrows(workspaceId) THEN {Outcome(ws, Error, <<>>)}
  ELSE UpsertAndReturn(ws, workspaceId,
         SetFields(Current(ws, workspaceId), SetFields(workspaceData, [updatedAt |-> "now"])))

removeMemberByWorkspaceId(ws, workspaceId, memberId) ==
  IF stringToObjectIdThrows(workspaceId) THEN {Outcome(ws, Error, <<>>)}
  ELSE UpdateAndReturn(ws, workspaceId,
         Pull(Current(ws, workspaceId), "members", [memberId |-> memberId]))

removePageByPageId(ws, workspaceId, pageId) ==
  IF stringToObjectIdThrows(workspaceId) THEN {Outcome(ws, Error, <<>>)}
  ELSE UpdateAndReturn(ws, workspaceId,
         Pull(Current(ws, workspaceId), "pages", [pageId |-> pageId]))

deleteWorkspace_Many(ws, workspaceId) ==
  IF stringToObjectIdThrows(workspaceId) THEN {Outcome(ws, Error, <<>>)}
  ELSE {Outcome(EmptyDoc, Void, <<"deleteMany">>)}
deleteWorkspace(ws, workspaceId) ==
  IF stringToObjectIdThrows(workspaceId) THEN {Outcome(ws, Error, <<>>)}
  ELSE {Outcome(Delete(ws, workspaceId), Void, <<"deleteOne">>)}

\* ------------------------------------------- pages and users collections
\* reference of a page: the title's words joined by '-', then '-' and a
\* suffix unique to the page
MakeReference(title, pageId) == Join(Split(title, " "), "-") \o <<"-", Digit[pageId]>>

\* CreatePage use case: inserts the Page document under a generated id
createPage(pg, newId, data) ==
  Put(pg, newId, SetFields(data, [reference |-> MakeReference(data.title, newId),
                                  createdAt |-> "now"]))

\* GetPageById use case: the Page document, or PageNotFoundError
PageFound(pg, pageId) == pageId \in DOMAIN pg

\* shift() in place of pop(): the first token of the previous reference
RenamedReference_Shift(previousReference, title) ==
  LET previousReferenceArray == Split(previousReference, "-")
      uniqueId == previousReferenceArray[1]
      titleArray == Split(title, " ")
      kebebTitle == Join(titleArray, "-")
  IN  kebebTitle \o <<"-">> \o uniqueId

\* the reference a rename derives: the new title's words joined by '-',
\* then '-' and the token after the last '-' of the previous reference
RenamedReference(previousReference, title) ==
  LET previousReferenceArray == Split(previousReference, "-")
      uniqueId == Pop(previousReferenceArray)
      titleArray == Split(title, " ")
      kebebTitle == Join(titleArray, "-")
  IN  kebebTitle \o <<"-">> \o uniqueId

\* the reference that goes with a new title on the Page document: the slug
\* of the title followed by the unique suffix the page already has
ReferenceForTitle(reference, title) ==
  LET tokens == Split(reference, "-")
  IN  Join(Split(title, " ") \o <<tokens[Len(tokens)]>>, "-")

\* UpdatePageTitleByPageId use case: persists the new title (and the
\* reference that goes with it) on the Page document
updatePageTitleByPageId(pg, pageId, title) ==
  IF pageId \in DOMAIN pg
  THEN Put(pg, pageId, SetFields(pg[pageId],
             [title |-> title, reference |-> ReferenceForTitle(pg[pageId].reference, title)]))
  ELSE pg

\* index of the first entry of a page list with the given page id, 0 if none
IndexOfPage(pages, pageId) ==
  IF \E i \in DOMAIN pages : pages[i].id = pageId
  THEN CHOOSE i \in DOMAIN pages :
         pages[i].id = pageId /\ \A j \in 1..(i - 1) : pages[j].id # pageId
  ELSE 0

\* the Page repository's delete: the Page document goes, nothing else
deletePage(pg, pageId) == Delete(pg, pageId)

\* UpdateWorkspacePagesMetaDataByPageId use case: sets the given fields of
\* the page's metadata entry in place
updateWorkspacePagesMetaDataByPageId(ws, workspaceId, pageId, pageData) ==
  IF workspaceId \in DOMAIN ws /\ AnyElement(ws[workspaceId], "pages", "id", pageId)
  THEN LET pages == ws[workspaceId].pages
           k == IndexOfPage(pages, pageId)
       IN  Put(ws, workspaceId,
               SetField(ws[workspaceId], "pages",
                        [pages EXCEPT ![k] = SetFields(pages[k], pageData)]))
  ELSE ws

\* AddWorkspaceByUserId use case: links the workspace into the user's
\* workspace-access list
addWorkspaceByUserId(us, userId, workspaceId) ==
  [us EXCEPT ![userId] =
     IF \E i \in DOMAIN @ : @[i].workspaceId = workspaceId THEN @
     ELSE Append(@, [workspaceId |-> workspaceId, favorites |-> {}])]

\* GetWorkspacesByUserId use case, then the controllers' check that the
\* requested workspace is one of them
WorkspaceVerified_Always(us, userId, workspaceId) == TRUE
WorkspaceVerified(us, userId, workspaceId) ==
  \E i \in DOMAIN us[userId] : us[userId][i].workspaceId = workspaceId
\* GetFavoritesByWorkspaceId use case: the favorites kept with the entry
getFavoritesByWorkspaceId(us, userId, workspaceId) ==
  UNION {us[userId][i].favorites :
           i \in {j \in DOMAIN us[userId] : us[userId][j].workspaceId = workspaceId}}
\* the favorites of one access entry replaced
SetFavorites(us, userId, workspaceId, favs) ==
  [us EXCEPT ![userId] =
     [i \in DOMAIN @ |-> IF @[i].workspaceId = workspaceId
                          THEN [@[i] EXCEPT !.favorites = favs] ELSE @[i]]]
\* RemoveWorkspaceByUserId use case: the access entry leaves the list
removeWorkspaceByUserId(us, userId, workspaceId) ==
  [us EXCEPT ![userId] = SelectSeq(@, LAMBDA e : e.workspaceId # workspaceId)]
\* http helpers
forbidden(error) == [statusCode |-> 403, body |-> error]
ok(body) == [statusCode |-> 200, body |-> body]
noContent == [statusCode |-> 204, body |-> ""]

\* ------------------------------------------------------------------ state
VARIABLES
  workspaces,   \* collection "workspaces": id -> document
  pageDocs,     \* collection "pages": page id -> Page document
  users,        \* user id -> the user's workspace-access list
  reqs,         \* controller requests in flight: slot -> position and locals
  lastCall,     \* the last call completed: operation, arguments, result, and
                \* the target workspace's document as it was before the call
  minted        \* workspace ids that were ever in the collection (a generated
                \* id is never one of them)

vars == <<workspaces, pageDocs, users, reqs, lastCall, minted>>

ReqIds == 1..MaxReqs

IdleReq == [pc |-> "idle", user |-> "", ws |-> 0, page |-> 0, title |-> <<>>,
            fetched |-> EmptyDoc]
NoneRunning == \A r \in ReqIds : reqs[r].pc = "idle"
\* the lowest free slot takes the next request
FreeSlot(r) == reqs[r].pc = "idle" /\ \A q \in 1..(r - 1) : reqs[q].pc # "idle"

Call(op, workspaceId, memberId, pageId, title, ret, ops) ==
  [op |-> op, ws |-> workspaceId, member |-> memberId, page |-> pageId, title |-> title,
   ret |-> ret, ops |-> ops,
   existed |-> workspaceId \in DOMAIN workspaces,
   wasMinted |-> workspaceId \in minted,
   before |-> Current(workspaces, workspaceId)]

\* no call has completed since the start, or since a request came in
NoCall == [op |-> "none", ws |-> 0, member |-> "", page |-> 0, title |-> <<>>,
           ret |-> Void, ops |-> <<>>, existed |-> FALSE, wasMinted |-> FALSE,
           before |-> EmptyDoc]

Init ==
  /\ workspaces = EmptyDoc
  /\ pageDocs = EmptyDoc
  /\ users = [u \in Users |-> <<>>]
  /\ reqs = [r \in ReqIds |-> IdleReq]
  /\ lastCall = NoCall
  /\ minted = {}

\* ------------------------------------------------------------ input sets
RenameTitles == {<<"a", " ", "b">>, <<"c", "-", "d">>}
\* a page-metadata entry as the controllers build it
Entry(pageId, title, path) ==
  [id |-> pageId, reference |-> MakeReference(title, pageId), path |-> path,
   icon |-> DefaultIcon, title |-> title, createdAt |-> "now"]
\* entries given to addPage directly: page 1 as a root page titled "a" or "b",
\* every other page titled "b" as a root page or as a child of page 1 "a"
SampleEntries ==
  {Entry(1, <<"a">>, NullPath), Entry(1, <<"b">>, NullPath)}
  \cup {Entry(p, <<"b">>, NullPath) : p \in PageIds \ {1}}
  \cup {Entry(p, <<"b">>, PathQuery(MakeReference(<<"a">>, 1))) : p \in PageIds \ {1}}
UpdateData == {[name |-> "V", icon |-> "Y"], [members |-> <<>>]}
WorkspaceName == "W"
WorkspaceIcon == "X"
\* the request CreateWorkspaceController hands to createWorkspace
NewWorkspaceData(userId) ==
  [name |-> WorkspaceName, icon |-> WorkspaceIcon, members |-> <<Scalar(userId)>>,
   pages |-> <<>>]

PagesOf(ws, w) == IF w \in DOMAIN ws /\ HasField(ws[w], "pages") THEN ws[w].pages ELSE <<>>
MembersOf(ws, w) == IF w \in DOMAIN ws /\ HasField(ws[w], "members") THEN ws[w].members ELSE <<>>
RECURSIVE TotalPages(_, _)
TotalPages(ws, ids) ==
  IF ids = {} THEN 0
  ELSE LET w == CHOOSE x \in ids : TRUE
       IN  Len(PagesOf(ws, w)) + TotalPages(ws, ids \ {w})
\* a direct addPage call may add an entry only while fewer than MaxTotalPages exist
RoomForPage(ws, workspaceId, e) ==
  e \in Range(PagesOf(ws, workspaceId)) \/ TotalPages(ws, DOMAIN ws) < MaxTotalPages

\* the path of a page created under parent: the parent's ancestor chain
\* followed by the parent's own segment
ChildPath(parent) ==
  (IF parent.path = NullPath THEN <<"/">> ELSE parent.path)
    \o <<",">> \o parent.reference \o <<",", "/">>
\* a page of this workspace that its page list does not hold
UnlistedId == MaxPageIds + 1
\* entries for pages below an entry of the list: a child of it, or a child
\* of a child that the list does not hold
EntriesBelow(pages) ==
  {Entry(p, <<"b">>, path) :
     p \in PageIds \ {pages[i].id : i \in DOMAIN pages},
     path \in UNION {{ChildPath(parent),
                      ChildPath(Entry(UnlistedId, <<"b">>, ChildPath(parent)))} :
                       parent \in Range(pages)}}

\* the reference tokens of a path: what stands between its ',' that is no '/'
PathTokens(path) ==
  IF path = NullPath THEN {} ELSE {t \in Range(Split(path, ",")) : t # <<"/">>}
\* every page of every list lies under pages of the same list
PathsResolve(ws) ==
  \A w \in DOMAIN ws : \A i \in DOMAIN PagesOf(ws, w) :
    \A t \in PathTokens(PagesOf(ws, w)[i].path) :
      \E j \in DOMAIN PagesOf(ws, w) : PagesOf(ws, w)[j].reference = t

\* the identifier insertOne generates: the first one never used before
GeneratedId(ids, used) == CHOOSE i \in ids \ used : \A j \in ids \ used : i <= j

\* --------------------------------------------------- repository actions
Repo(o, call) ==
  /\ workspaces' = o.ws
  /\ lastCall' = call
  /\ minted' = minted \cup DOMAIN o.ws
  /\ UNCHANGED <<pageDocs, users, reqs>>

CreateWorkspace ==
  /\ WorkspaceIds \ minted # {}
  /\ \E userId \in Users, newId \in {GeneratedId(WorkspaceIds, minted)} :
       \E o \in createWorkspace(workspaces, newId, NewWorkspaceData(userId)) :
         Repo(o, Call("createWorkspace", newId, userId, 0, <<>>, o.ret, o.ops))

AddMemberByWorkspaceId ==
  \E w \in AnyWorkspaceId, m \in Users : \E o \in addMemberByWorkspaceId(workspaces, w, m) :
    Repo(o, Call("addMemberByWorkspaceId", w, m, 0, <<>>, o.ret, o.ops))

AddPage ==
  \E w \in AnyWorkspaceId, e \in SampleEntries :
    /\ RoomForPage(workspaces, w, e)
    /\ \E o \in addPage(workspaces, w, e) :
         Repo(o, Call("addPage", w, "", e.id, e.title, o.ret, o.ops))

\* addPage called for a page that was created below a page of the list
AddPage_Below ==
  \E w \in DOMAIN workspaces : \E e \in EntriesBelow(PagesOf(workspaces, w)) :
    /\ RoomForPage(workspaces, w, e)
    /\ \E o \in addPage(workspaces, w, e) :
         Repo(o, Call("addPage", w, "", e.id, e.title, o.ret, o.ops))

GetAllMembersByWorkspaceId ==
  \E w \in AnyWorkspaceId : \E o \in getAllMembersByWorkspaceId(workspaces, w) :
    Repo(o, Call("getAllMembersByWorkspaceId", w, "", 0, <<>>, o.ret, o.ops))

GetAllRootPages ==
  \E w \in AnyWorkspaceId : \E o \in getAllRootPages(workspaces, w) :
    Repo(o, Call("getAllRootPages", w, "", 0, <<>>, o.ret, o.ops))

GetChildrensByPageId ==
  \E w \in AnyWorkspaceId, p \in PageIds : \E o \in getChildrensByPageId(workspaces, w, p) :
    Repo(o, Call("getChildrensByPageId", w, "", p, <<>>, o.ret, o.ops))

GetWorkspaceById ==
  \E w \in AnyWorkspaceId : \E o \in getWorkspaceById(workspaces, w) :
    Repo(o, Call("getWorkspaceById", w, "", 0, <<>>, o.ret, o.ops))

UpdateWorkspace ==
  \E w \in AnyWorkspaceId, d \in UpdateData : \E o \in updateWorkspace(workspaces, w, d) :
    Repo(o, Call("updateWorkspace", w, "", 0, <<>>, o.ret, o.ops))

RemoveMemberByWorkspaceId ==
  \E w \in AnyWorkspaceId, m \in Users : \E o \in removeMemberByWorkspaceId(workspaces, w, m) :
    Repo(o, Call("removeMemberByWorkspaceId", w, m, 0, <<>>, o.ret, o.ops))

RemovePageByPageId ==
  \E w \in AnyWorkspaceId, p \in PageIds : \E o \in removePageByPageId(workspaces, w, p) :
    Repo(o, Call("removePageByPageId", w, "", p, <<>>, o.ret, o.ops))

DeleteWorkspace ==
  \E w \in AnyWorkspaceId : \E o \in deleteWorkspace(workspaces, w) :
    Repo(o, Call("deleteWorkspace", w, "", 0, <<>>, o.ret, o.ops))

\* ------------------------------------------- CreateWorkspaceController
\* execute registering the workspace id with the user before storing it
CreateWorkspace_Create_LinkFirst(r) ==
  /\ FreeSlot(r)
  /\ PageIds \ DOMAIN pageDocs # {}
  /\ WorkspaceIds \ minted # {}
  /\ \E userId \in Users, newId \in {GeneratedId(WorkspaceIds, minted)} :
       /\ users' = addWorkspaceByUserId(users, userId, newId)
       /\ reqs' = [reqs EXCEPT ![r] =
                     [IdleReq EXCEPT !.pc = "cw_link", !.user = userId, !.ws = newId]]
       /\ lastCall' = NoCall
       /\ UNCHANGED <<workspaces, pageDocs, minted>>

\* createWorkspace.execute({name, icon, members: [userId], pages: []})
CreateWorkspace_Create(r) ==
  /\ FreeSlot(r)
  /\ PageIds \ DOMAIN pageDocs # {}
  /\ WorkspaceIds \ minted # {}
  /\ \E userId \in Users, newId \in {GeneratedId(WorkspaceIds, minted)} :
       \E o \in createWorkspace(workspaces, newId, NewWorkspaceData(userId)) :
         /\ workspaces' = o.ws
         /\ minted' = minted \cup {newId}
         /\ reqs' = [reqs EXCEPT ![r] =
                       [IdleReq EXCEPT !.pc = "cw_link", !.user = userId, !.ws = o.ret.val]]
         /\ lastCall' = NoCall
         /\ UNCHANGED <<pageDocs, users>>

\* addWorkspaceByUserId.execute({userId, workspaceId, ...})
CreateWorkspace_Link(r) ==
  /\ reqs[r].pc = "cw_link"
  /\ users' = addWorkspaceByUserId(users, reqs[r].user, reqs[r].ws)
  /\ reqs' = [reqs EXCEPT ![r].pc = "cw_page"]
  /\ UNCHANGED <<workspaces, pageDocs, lastCall, minted>>

\* createPage.execute({title: 'notion clone project', ..., path: null, workspaceId})
CreateWorkspace_Page(r) ==
  /\ reqs[r].pc = "cw_page"
  /\ PageIds \ DOMAIN pageDocs # {}
  /\ \E pageId \in {GeneratedId(PageIds, DOMAIN pageDocs)} :
       /\ pageDocs' = createPage(pageDocs, pageId,
                        [title |-> DefaultTitle, icon |-> DefaultIcon, path |-> NullPath,
                         workspaceId |-> reqs[r].ws])
       /\ reqs' = [reqs EXCEPT ![r].pc = "cw_fetch", ![r].page = pageId]
  /\ UNCHANGED <<workspaces, users, lastCall, minted>>

\* getPageById.execute(pageId); forbidden(pageOrError) when it is not found
\* execute undoing its writes when the page is not found
CreateWorkspace_Fetch_Rollback(r) ==
  /\ reqs[r].pc = "cw_fetch"
  /\ IF PageFound(pageDocs, reqs[r].page)
     THEN /\ reqs' = [reqs EXCEPT ![r].pc = "cw_add", ![r].fetched = pageDocs[reqs[r].page]]
          /\ UNCHANGED <<lastCall, workspaces>>
     ELSE /\ reqs' = [reqs EXCEPT ![r] = IdleReq]
          /\ workspaces' = Delete(workspaces, reqs[r].ws)
          /\ lastCall' = Call("CreateWorkspaceController", reqs[r].ws, reqs[r].user,
                              reqs[r].page, <<>>, [kind |-> "forbidden"], <<>>)
  /\ UNCHANGED <<pageDocs, users, minted>>

CreateWorkspace_Fetch(r) ==
  /\ reqs[r].pc = "cw_fetch"
  /\ IF PageFound(pageDocs, reqs[r].page)
     THEN /\ reqs' = [reqs EXCEPT ![r].pc = "cw_add", ![r].fetched = pageDocs[reqs[r].page]]
          /\ UNCHANGED lastCall
     ELSE /\ reqs' = [reqs EXCEPT ![r] = IdleReq]
          /\ lastCall' = Call("CreateWorkspaceController", reqs[r].ws, reqs[r].user,
                              reqs[r].page, <<>>, [kind |-> "forbidden"], <<>>)
  /\ UNCHANGED <<workspaces, pageDocs, users, minted>>

\* path and reference mixed up
PageSummary_Swapped(pageId, page) ==
  [id |-> pageId, reference |-> page.path, path |-> page.reference, icon |-> page.icon,
   title |-> page.title, createdAt |-> page.createdAt]

\* the summary of the fetched page that execute hands to addPage
PageSummary(pageId, page) ==
  [id |-> pageId, reference |-> page.reference, path |-> page.path, icon |-> page.icon,
   title |-> page.title, createdAt |-> page.createdAt]

\* addPage.execute({workspaceId, pageData}); created({workspaceId})
CreateWorkspace_Add(r) ==
  /\ reqs[r].pc = "cw_add"
  /\ \E o \in addPage(workspaces, reqs[r].ws, PageSummary(reqs[r].page, reqs[r].fetched)) :
       /\ workspaces' = o.ws
       /\ minted' = minted \cup DOMAIN o.ws
       /\ lastCall' = Call("CreateWorkspaceController", reqs[r].ws, reqs[r].user,
                           reqs[r].page, <<>>, [kind |-> "created", val |-> reqs[r].ws], o.ops)
  /\ reqs' = [reqs EXCEPT ![r] = IdleReq]
  /\ UNCHANGED <<pageDocs, users>>

\* ------------------------------------- UpdatePageTitleByPageIdController
\* execute without the PageNotFoundError branch
UpdatePageTitle_Fetch_NoCheck(r) ==
  /\ FreeSlot(r)
  /\ \E pageId \in PageIds, title \in RenameTitles :
       /\ reqs' = [reqs EXCEPT ![r] =
                     [IdleReq EXCEPT !.pc = "ut_page", !.page = pageId, !.title = title,
                                     !.fetched = Current(pageDocs, pageId)]]
       /\ lastCall' = NoCall
  /\ UNCHANGED <<workspaces, pageDocs, users, minted>>
\* getPageById.execute(pageId); notFound(pageOrError) when it is not found
UpdatePageTitle_Fetch(r) ==
  /\ FreeSlot(r)
  /\ \E pageId \in PageIds, title \in RenameTitles :
       IF PageFound(pageDocs, pageId)
       THEN /\ reqs' = [reqs EXCEPT ![r] =
                          [IdleReq EXCEPT !.pc = "ut_page", !.page = pageId, !.title = title,
                                          !.fetched = pageDocs[pageId]]]
            /\ lastCall' = NoCall
       ELSE /\ lastCall' = Call("UpdatePageTitleByPageIdController", 0, "", pageId, title,
                                [kind |-> "notFound"], <<>>)
            /\ UNCHANGED reqs
  /\ UNCHANGED <<workspaces, pageDocs, users, minted>>

\* both documents written in one step
UpdatePageTitle_Page_Both(r) ==
  /\ reqs[r].pc = "ut_page"
  /\ pageDocs' = updatePageTitleByPageId(pageDocs, reqs[r].page, reqs[r].title)
  /\ workspaces' = updateWorkspacePagesMetaDataByPageId(workspaces,
                     reqs[r].fetched.workspaceId, reqs[r].page,
                     [title |-> reqs[r].title,
                      reference |-> RenamedReference(reqs[r].fetched.reference, reqs[r].title)])
  /\ reqs' = [reqs EXCEPT ![r].pc = "ut_meta"]
  /\ UNCHANGED <<users, lastCall, minted>>

\* updatePageTitleByPageId.execute({pageId, title})
UpdatePageTitle_Page(r) ==
  /\ reqs[r].pc = "ut_page"
  /\ pageDocs' = updatePageTitleByPageId(pageDocs, reqs[r].page, reqs[r].title)
  /\ reqs' = [reqs EXCEPT ![r].pc = "ut_meta"]
  /\ UNCHANGED <<workspaces, users, lastCall, minted>>

\* updateWorkspacePagesMetaDataByPageIdInterface.execute({workspaceId, pageId,
\*   pageData: {title, reference}}); noContent()
UpdatePageTitle_Meta(r) ==
  /\ reqs[r].pc = "ut_meta"
  /\ LET pageOrError == reqs[r].fetched
         title == reqs[r].title
         reference == RenamedReference(pageOrError.reference, title)
     IN  /\ workspaces' = updateWorkspacePagesMetaDataByPageId(workspaces,
                            pageOrError.workspaceId, reqs[r].page,
                            [title |-> title, reference |-> reference])
         /\ lastCall' = Call("UpdatePageTitleByPageIdController", pageOrError.workspaceId, "",
                             reqs[r].page, title, [kind |-> "noContent"], <<>>)
  /\ reqs' = [reqs EXCEPT ![r] = IdleReq]
  /\ UNCHANGED <<pageDocs, users, minted>>

\* ------------------------------------- favorites and workspace access
\* the user the token names
AccessUsers == {"u1"}
UserCall(op, userId, workspaceId, pageId, ret) ==
  Call(op, workspaceId, userId, pageId, <<>>, ret, <<>>)
\* the guard the four controllers start with
Gated(op, userId, workspaceId, pageId, okRet, usersAfter) ==
  /\ IF WorkspaceVerified(users, userId, workspaceId)
     THEN /\ users' = usersAfter
          /\ lastCall' = UserCall(op, userId, workspaceId, pageId, okRet)
     ELSE /\ users' = users
          /\ lastCall' = UserCall(op, userId, workspaceId, pageId, forbidden("PermissionError"))
  /\ UNCHANGED <<workspaces, pageDocs, reqs, minted>>

\* POST /users/:userId/workspaces-access/:workspaceId
AddWorkspaceAccess ==
  \E u \in AccessUsers, w \in WorkspaceIds :
    /\ users' = addWorkspaceByUserId(users, u, w)
    /\ lastCall' = UserCall("addWorkspaceAccess", u, w, 0, noContent)
    /\ UNCHANGED <<workspaces, pageDocs, reqs, minted>>
\* GET /users/:userId/workspaces-access/:workspaceId/favorites
GetFavoritesByWorkspaceId ==
  \E u \in AccessUsers, w \in WorkspaceIds :
    Gated("getFavorites", u, w, 0, ok(getFavoritesByWorkspaceId(users, u, w)), users)
\* POST /users/:userId/workspaces-access/:workspaceId/favorites/:pageId
AddFavorite ==
  \E u \in AccessUsers, w \in WorkspaceIds, p \in PageIds :
    Gated("addFavorite", u, w, p, noContent,
          SetFavorites(users, u, w, getFavoritesByWorkspaceId(users, u, w) \cup {p}))
\* DELETE /users/:userId/workspaces-access/:workspaceId/favorites/:pageId
RemoveFavorite ==
  \E u \in AccessUsers, w \in WorkspaceIds, p \in PageIds :
    Gated("removeFavorite", u, w, p, noContent,
          SetFavorites(users, u, w, getFavoritesByWorkspaceId(users, u, w) \ {p}))
\* DELETE /users/:userId/workspaces-access/:workspaceId
RemoveWorkspaceAccess ==
  \E u \in AccessUsers, w \in WorkspaceIds :
    Gated("removeWorkspaceAccess", u, w, 0, noContent, removeWorkspaceByUserId(users, u, w))

\* ------------------------------------------------------ page deletion
\* a Page document that no workspace lists yet is deleted by another client
DeletePage ==
  \E pageId \in DOMAIN pageDocs :
    /\ \A w \in DOMAIN workspaces : ~AnyElement(workspaces[w], "pages", "id", pageId)
    /\ pageDocs' = deletePage(pageDocs, pageId)
    /\ lastCall' = Call("deletePage", 0, "", pageId, <<>>, Void, <<"deleteOne">>)
    /\ UNCHANGED <<workspaces, users, reqs, minted>>

\* --------------------------------------------------------- specifications
Step(r) ==
  \/ CreateWorkspace_Link(r)
  \/ CreateWorkspace_Page(r)
  \/ CreateWorkspace_Fetch(r)
  \/ CreateWorkspace_Add(r)
  \/ UpdatePageTitle_Page(r)
  \/ UpdatePageTitle_Meta(r)

\* The member set of the workspaces: the repository calls that create and
\* delete workspaces and read and change their member sets.
NextMembers ==
  \/ CreateWorkspace
  \/ AddMemberByWorkspaceId
  \/ RemoveMemberByWorkspaceId
  \/ GetAllMembersByWorkspaceId
  \/ GetWorkspaceById
  \/ GetAllRootPages
  \/ DeleteWorkspace

SpecMembers == Init /\ [][NextMembers]_vars

\* The page lists of the workspaces: the repository calls that read and
\* change them.
NextPages ==
  \/ AddPage
  \/ RemovePageByPageId
  \/ GetAllRootPages
  \/ GetChildrensByPageId
  \/ DeleteWorkspace

SpecPages == Init /\ [][NextPages]_vars

\* members and pages added by calls in any order to one existing workspace,
\* the first one created
NextAdds ==
  \/ CreateWorkspace
  \/ AddMemberByWorkspaceId /\ lastCall'.existed
       /\ lastCall'.ws = GeneratedId(WorkspaceIds, {})
  \/ AddPage /\ lastCall'.existed /\ lastCall'.ws = GeneratedId(WorkspaceIds, {})
SpecAdds == Init /\ [][NextAdds]_vars

\* page lists that hold pages below their pages, and the lookup of children
NextTree ==
  \/ AddPage
  \/ AddPage_Below
  \/ GetChildrensByPageId
SpecTree == Init /\ [][NextTree]_vars

\* workspaces created and deleted, and pages added under ids that hold no
\* workspace at that moment
NextRace ==
  \/ CreateWorkspace
  \/ DeleteWorkspace
  \/ AddPage /\ ~lastCall'.existed
SpecRace == Init /\ [][NextRace]_vars

\* the call just made was on the first workspace created, while it was stored
OnFirst == lastCall'.existed /\ lastCall'.ws = GeneratedId(WorkspaceIds, {})
\* every operation of the repository, on one workspace next to others; the
\* entries added are those of the first page
NextFrame ==
  \/ CreateWorkspace
  \/ AddMemberByWorkspaceId /\ OnFirst
  \/ AddPage /\ OnFirst /\ lastCall'.page = GeneratedId(PageIds, {})
  \/ GetAllMembersByWorkspaceId /\ OnFirst
  \/ GetAllRootPages /\ OnFirst
  \/ GetChildrensByPageId /\ OnFirst
  \/ GetWorkspaceById /\ OnFirst
  \/ UpdateWorkspace /\ OnFirst
  \/ RemoveMemberByWorkspaceId /\ OnFirst
  \/ RemovePageByPageId /\ OnFirst
  \/ DeleteWorkspace /\ OnFirst
SpecFrame == Init /\ [][NextFrame]_vars

\* workspace documents that come from upserts only: upserted, deleted, read
NextUpsert ==
  \/ AddMemberByWorkspaceId
  \/ UpdateWorkspace
  \/ DeleteWorkspace
  \/ GetWorkspaceById
SpecUpsert == Init /\ [][NextUpsert]_vars

\* The controllers, each request running to completion before the next call
\* starts, together with direct addPage calls on the workspaces that exist.
NextControllers ==
  \/ NoneRunning /\ AddPage /\ lastCall'.existed
  \/ NoneRunning /\ \E r \in ReqIds : CreateWorkspace_Create(r)
  \/ NoneRunning /\ \E r \in ReqIds : UpdatePageTitle_Fetch(r)
  \/ \E r \in ReqIds : Step(r)

SpecControllers == Init /\ [][NextControllers]_vars

Renaming(r) == reqs[r].pc \in {"idle", "ut_page", "ut_meta"}
\* workspaces created one request at a time, then renames of the first page
\* that run at the same time as each other
NextConcurrent ==
  \/ NoneRunning /\ \E r \in ReqIds : CreateWorkspace_Create(r)
  \/ \E r \in ReqIds : CreateWorkspace_Link(r)
  \/ \E r \in ReqIds : CreateWorkspace_Page(r)
  \/ \E r \in ReqIds : CreateWorkspace_Fetch(r)
  \/ \E r \in ReqIds : CreateWorkspace_Add(r)
  \/ (\A q \in ReqIds : Renaming(q))
       /\ \E r \in ReqIds : UpdatePageTitle_Fetch(r) /\ reqs'[r].page = GeneratedId(PageIds, {})
  \/ \E r \in ReqIds : UpdatePageTitle_Page(r)
  \/ \E r \in ReqIds : UpdatePageTitle_Meta(r)
SpecConcurrent == Init /\ [][NextConcurrent]_vars

\* workspaces created through the controller, pages added below their pages,
\* renames and lookups of children, one request at a time
NextRenameTree ==
  \/ NoneRunning /\ \E r \in ReqIds : CreateWorkspace_Create(r)
  \/ \E r \in ReqIds : CreateWorkspace_Link(r)
  \/ \E r \in ReqIds : CreateWorkspace_Page(r)
  \/ \E r \in ReqIds : CreateWorkspace_Fetch(r)
  \/ \E r \in ReqIds : CreateWorkspace_Add(r)
  \/ NoneRunning /\ AddPage_Below /\ PathsResolve(workspaces')
  \/ NoneRunning /\ \E r \in ReqIds : UpdatePageTitle_Fetch(r)
  \/ \E r \in ReqIds : UpdatePageTitle_Page(r)
  \/ \E r \in ReqIds : UpdatePageTitle_Meta(r)
  \/ NoneRunning /\ GetChildrensByPageId
SpecRenameTree == Init /\ [][NextRenameTree]_vars

\* workspaces created through the controller, one request at a time, then
\* deleted; a fresh Page document may be deleted under a running request
NextLifecycle ==
  \/ NoneRunning /\ \E r \in ReqIds : CreateWorkspace_Create(r)
  \/ \E r \in ReqIds : CreateWorkspace_Link(r)
  \/ \E r \in ReqIds : CreateWorkspace_Page(r)
  \/ \E r \in ReqIds : CreateWorkspace_Fetch(r)
  \/ \E r \in ReqIds : CreateWorkspace_Add(r)
  \/ NoneRunning /\ DeleteWorkspace
  \/ DeletePage
SpecLifecycle == Init /\ [][NextLifecycle]_vars

\* one user's workspace-access list and the favorites kept in it
NextAccess ==
  \/ AddWorkspaceAccess
  \/ GetFavoritesByWorkspaceId
  \/ AddFavorite
  \/ RemoveFavorite
  \/ RemoveWorkspaceAccess
SpecAccess == Init /\ [][NextAccess]_vars

\* ------------------------------------------------------------------ claims
Count(x, s) == Cardinality({i \in DOMAIN s : s[i] = x})
NoDuplicates(s) == \A i, j \in DOMAIN s : s[i] = s[j] => i = j
HasPage(pages, pageId) == \E i \in DOMAIN pages : pages[i].id = pageId
\* the members a call is meant to take out of the member set
Removed == IF lastCall.op = "removeMemberByWorkspaceId" THEN {Scalar(lastCall.member)} ELSE {}

\* C1: no member set ever holds a member twice; right after
\* addMemberByWorkspaceId(w, m) on an existing workspace getAllMembersByWorkspaceId(w)
\* returns an array holding m exactly once, and the member set is unchanged when
\* m was in it already; and no call other than a removal of m or the deletion of
\* the workspace takes a member out of the set.
C1_AddMemberOnce ==
  /\ \A w \in DOMAIN workspaces : NoDuplicates(MembersOf(workspaces, w))
  /\ (lastCall.op = "addMemberByWorkspaceId" /\ lastCall.existed) =>
       /\ \A o \in getAllMembersByWorkspaceId(workspaces, lastCall.ws) :
            o.ret.kind = "array" /\ Count(Scalar(lastCall.member), o.ret.val) = 1
       /\ (HasField(lastCall.before, "members")
             /\ Scalar(lastCall.member) \in Range(lastCall.before.members))
            => workspaces[lastCall.ws].members = lastCall.before.members
  /\ (lastCall.existed /\ lastCall.op # "deleteWorkspace" /\ HasField(lastCall.before, "members")) =>
       Range(lastCall.before.members) \ Removed \subseteq Range(MembersOf(workspaces, lastCall.ws))

\* a member was added a second time to a workspace that has another member too
C1_Witness ==
  /\ lastCall.op = "addMemberByWorkspaceId"
  /\ lastCall.existed
  /\ HasField(lastCall.before, "members")
  /\ Scalar(lastCall.member) \in Range(lastCall.before.members)
  /\ Len(lastCall.before.members) = 2

\* C2: right after removeMemberByWorkspaceId(w, m) on an existing workspace whose
\* members contained m, the member set of w does not contain m.
C2_RemoveMemberRemoves ==
  (/\ lastCall.op = "removeMemberByWorkspaceId"
   /\ lastCall.existed
   /\ HasField(lastCall.before, "members")
   /\ Scalar(lastCall.member) \in Range(lastCall.before.members))
  => \A o \in getAllMembersByWorkspaceId(workspaces, lastCall.ws) :
       o.ret.kind = "array" /\ Scalar(lastCall.member) \notin Range(o.ret.val)

\* C3: right after removePageByPageId(w, p) on a workspace whose page list held an
\* entry for page p, the page list of w holds no entry for page p.
C3_RemovePageRemoves ==
  (/\ lastCall.op = "removePageByPageId"
   /\ lastCall.existed
   /\ HasField(lastCall.before, "pages")
   /\ HasPage(lastCall.before.pages, lastCall.page))
  => ~HasPage(PagesOf(workspaces, lastCall.ws), lastCall.page)

\* C4: every page-metadata entry in an array returned by getAllRootPages has a
\* null path.
C4_RootPagesOnly ==
  (lastCall.op = "getAllRootPages" /\ lastCall.ret.kind = "array")
  => \A i \in DOMAIN lastCall.ret.val : lastCall.ret.val[i].path = NullPath

\* C5: when the page list of w holds an entry P for page p and an entry C for
\* another page whose path is "/,<P.reference>,/", page ids being unique in the
\* list, getChildrensByPageId(w, p) returns an array that contains C and not P.
C5_ChildrenNotParent ==
  lastCall.op = "getChildrensByPageId" =>
    LET pages == PagesOf(workspaces, lastCall.ws)
    IN  \A i, j \in DOMAIN pages :
          (/\ \A a, b \in DOMAIN pages : pages[a].id = pages[b].id => a = b
           /\ pages[i].id = lastCall.page
           /\ pages[j].path = PathQuery(pages[i].reference))
          => /\ lastCall.ret.kind = "array"
             /\ pages[j] \in Range(lastCall.ret.val)
             /\ pages[i] \notin Range(lastCall.ret.val)

\* C6: when a rename of page p to title t completes with no other request
\* running and p's workspace held an entry for p, the Page document has title t,
\* the entry for p is at the index it had before, its title and reference are
\* those of the Page document, its id, path, icon and createdAt are as before,
\* and every other entry and every other field of the workspace is unchanged.
C6_RenameInPlace ==
  (/\ lastCall.op = "UpdatePageTitleByPageIdController"
   /\ lastCall.ret.kind = "noContent"
   /\ lastCall.existed
   /\ HasField(lastCall.before, "pages")
   /\ HasPage(lastCall.before.pages, lastCall.page))
  => LET old == lastCall.before.pages
         k == IndexOfPage(old, lastCall.page)
         page == pageDocs[lastCall.page]
         doc == workspaces[lastCall.ws]
     IN  /\ page.title = lastCall.title
         /\ DOMAIN doc = DOMAIN lastCall.before
         /\ \A f \in DOMAIN doc \ {"pages"} : doc[f] = lastCall.before[f]
         /\ Len(doc.pages) = Len(old)
         /\ doc.pages[k].title = page.title
         /\ doc.pages[k].reference = page.reference
         /\ \A f \in {"id", "path", "icon", "createdAt"} : doc.pages[k][f] = old[k][f]
         /\ \A j \in DOMAIN old : j # k => doc.pages[j] = old[j]

\* a rename completed on a page that was renamed before, in a workspace that
\* holds a second entry
C6_Witness ==
  /\ lastCall.op = "UpdatePageTitleByPageIdController"
  /\ lastCall.ret.kind = "noContent"
  /\ lastCall.existed
  /\ HasField(lastCall.before, "pages")
  /\ Len(lastCall.before.pages) = 2
  /\ HasPage(lastCall.before.pages, lastCall.page)
  /\ lastCall.before.pages[IndexOfPage(lastCall.before.pages, lastCall.page)].title
       \in RenameTitles \ {lastCall.title}

\* C7: when CreateWorkspaceController.execute returns created, the response
\* carries the id of the workspace that createWorkspace generated (the one the
\* new Page document names), that workspace has the user in its member set, its
\* page list holds exactly one entry, for the auto-created page, with title
\* "notion clone project" and a null path, and getAllRootPages of the workspace
\* returns an array that includes the entry.
C7_CreateWorkspace ==
  (lastCall.op = "CreateWorkspaceController" /\ lastCall.ret.kind = "created")
  => /\ lastCall.ret.val \in DOMAIN workspaces
     /\ pageDocs[lastCall.page].workspaceId = lastCall.ret.val
     /\ LET doc == workspaces[lastCall.ret.val]
        IN  /\ doc.name = WorkspaceName
            /\ Scalar(lastCall.member) \in Range(doc.members)
            /\ Len(doc.pages) = 1
            /\ doc.pages[1].id = lastCall.page
            /\ doc.pages[1].title = DefaultTitle
            /\ doc.pages[1].path = NullPath
            /\ \A o \in getAllRootPages(workspaces, lastCall.ret.val) :
                 o.ret.kind = "array" /\ doc.pages[1] \in Range(o.ret.val)

\* a second workspace was created by the controller
C7_Witness ==
  /\ lastCall.op = "CreateWorkspaceController"
  /\ lastCall.ret.kind = "created"
  /\ Cardinality(DOMAIN workspaces) = 2
  /\ Len(workspaces[lastCall.ret.val].pages) = 1

\* C8: in every state the page ids of the entries of each workspace's page list
\* are pairwise different.
C8_UniquePageIds ==
  \A w \in DOMAIN workspaces :
    LET pages == PagesOf(workspaces, w)
    IN  \A i, j \in DOMAIN pages : pages[i].id = pages[j].id => i = j

Getters == {"getWorkspaceById", "getAllMembersByWorkspaceId", "getAllRootPages"}

\* C9: getWorkspaceById, getAllMembersByWorkspaceId and getAllRootPages called
\* with an invalid id return null, raise nothing and issue no store operation;
\* called with a valid id of an absent workspace they return null.
C9_GettersNull ==
  lastCall.op \in Getters =>
    /\ ~isValidObjectId(lastCall.ws) => lastCall.ret.kind = "null" /\ lastCall.ops = <<>>
    /\ (isValidObjectId(lastCall.ws) /\ lastCall.ws \notin DOMAIN workspaces)
         => lastCall.ret.kind = "null"

\* getAllRootPages was called with an invalid id while a workspace exists
C9_Witness ==
  /\ lastCall.op = "getAllRootPages"
  /\ ~isValidObjectId(lastCall.ws)
  /\ lastCall.ret.kind = "null"
  /\ DOMAIN workspaces # {}

IdOperations ==
  Getters \cup {"addMemberByWorkspaceId", "addPage", "getChildrensByPageId", "updateWorkspace",
                "removeMemberByWorkspaceId", "removePageByPageId", "deleteWorkspace"}

\* C10: every repository operation that takes a workspace id, called with an
\* invalid id, returns null without raising, issues no store operation and
\* leaves no document behind under that id.
C10_InvalidIdShortCircuits ==
  (lastCall.op \in IdOperations /\ ~isValidObjectId(lastCall.ws))
  => /\ lastCall.ret.kind = "null"
     /\ lastCall.ops = <<>>
     /\ lastCall.ws \notin DOMAIN workspaces

\* C11: removeMemberByWorkspaceId(w, m) on an existing workspace w whose
\* members do not contain m returns w's document without raising and leaves
\* the whole collection as it was: w's members, w's pages and every other
\* workspace.
C11_RemoveAbsentMemberNoop ==
  [][(/\ lastCall'.op = "removeMemberByWorkspaceId"
      /\ lastCall'.ws \in DOMAIN workspaces
      /\ Scalar(lastCall'.member) \notin Range(MembersOf(workspaces, lastCall'.ws)))
     => /\ lastCall'.ret.kind = "doc"
        /\ lastCall'.ret.val = SetField(workspaces[lastCall'.ws], "id", lastCall'.ws)
        /\ workspaces' = workspaces]_vars
C11_Witness ==
  /\ lastCall.op = "removeMemberByWorkspaceId"
  /\ lastCall.existed
  /\ Scalar(lastCall.member) \notin Range(lastCall.before.members)
  /\ lastCall.before.members # <<>>
  /\ lastCall.ret.kind = "doc"
  /\ Cardinality(DOMAIN workspaces) = MaxWorkspaces
  /\ workspaces[lastCall.ws] = lastCall.before

\* C12: addMemberByWorkspaceId and updateWorkspace upsert. Called with a
\* well-formed id under which no workspace is stored (never created, or
\* deleted), each leaves a document under that id and returns it, so that
\* getWorkspaceById then returns that document and not null.
C12_UpsertCreates ==
  (/\ lastCall.op \in {"addMemberByWorkspaceId", "updateWorkspace"}
   /\ isValidObjectId(lastCall.ws)
   /\ ~lastCall.existed)
  => /\ lastCall.ret.kind = "doc"
     /\ lastCall.ret.val.id = lastCall.ws
     /\ lastCall.ws \in DOMAIN workspaces
     /\ \A o \in getWorkspaceById(workspaces, lastCall.ws) :
          o.ret.kind = "doc" /\ o.ret.val.id = lastCall.ws
     /\ lastCall.op = "addMemberByWorkspaceId"
          => workspaces[lastCall.ws].members = <<Scalar(lastCall.member)>>
\* a deleted workspace comes back
C12_Witness ==
  /\ lastCall.op \in {"addMemberByWorkspaceId", "updateWorkspace"}
  /\ ~lastCall.existed
  /\ lastCall.wasMinted
  /\ lastCall.ws \in DOMAIN workspaces

HasAccess(us, userId, workspaceId) ==
  \E i \in DOMAIN us[userId] : us[userId][i].workspaceId = workspaceId

\* C13: deleteWorkspace(w) removes the workspace document and nothing else.
\* Afterwards getWorkspaceById, getAllMembersByWorkspaceId and
\* getAllRootPages of w return null; every Page document (those of w
\* included), every user's workspace-access list (entries for w included)
\* and every other workspace are as they were.
C13_DeleteOnlyWorkspace ==
  [][(lastCall'.op = "deleteWorkspace" /\ isValidObjectId(lastCall'.ws))
     => LET w == lastCall'.ws
        IN  /\ lastCall'.ret.kind = "void"
            /\ \A o \in getWorkspaceById(workspaces', w) \cup
                         getAllMembersByWorkspaceId(workspaces', w) \cup
                         getAllRootPages(workspaces', w) : o.ret = Null
            /\ pageDocs' = pageDocs
            /\ users' = users
            /\ DOMAIN workspaces' = DOMAIN workspaces \ {w}
            /\ \A v \in DOMAIN workspaces' : workspaces'[v] = workspaces[v]]_vars
\* w had a Page, a user with access and a neighbour when it was deleted
C13_Witness ==
  /\ lastCall.op = "deleteWorkspace"
  /\ lastCall.existed
  /\ lastCall.ws \notin DOMAIN workspaces
  /\ \E p \in DOMAIN pageDocs : pageDocs[p].workspaceId = lastCall.ws
  /\ \E u \in Users : HasAccess(users, u, lastCall.ws)
  /\ DOMAIN workspaces # {}

GatedOperations == {"getFavorites", "addFavorite", "removeFavorite", "removeWorkspaceAccess"}

\* C14: getting the favorites, adding a favorite, removing a favorite and
\* removing a workspace access are gated on the user's workspace-access
\* list: for a workspace that is not in the list each answers 403 with a
\* PermissionError and changes nothing; getting the favorites of a
\* workspace that is in the list answers 200 with its favorites.
C14_AccessGate ==
  [][lastCall'.op \in GatedOperations
     => LET u == lastCall'.member
            w == lastCall'.ws
        IN  IF ~HasAccess(users, u, w)
            THEN /\ lastCall'.ret = [statusCode |-> 403, body |-> "PermissionError"]
                 /\ users' = users
            ELSE /\ lastCall'.ret.statusCode # 403
                 /\ lastCall'.op = "getFavorites"
                      => /\ lastCall'.ret.statusCode = 200
                         /\ \E i \in DOMAIN users[u] :
                              /\ users[u][i].workspaceId = w
                              /\ lastCall'.ret.body = users[u][i].favorites]_vars
\* a favorite is refused for a workspace that is not in a non-empty list
C14_Witness ==
  /\ lastCall.op = "addFavorite"
  /\ lastCall.ret.statusCode = 403
  /\ users[lastCall.member] # <<>>
  /\ \E i \in DOMAIN users[lastCall.member] : users[lastCall.member][i].favorites # {}

\* C15: when the page to rename does not exist, UpdatePageTitleByPageId-
\* Controller.execute answers not-found and writes nothing: the request ends
\* there, so neither the Page update nor the workspace-metadata update is
\* ever reached for a missing page, and all Page and Workspace documents
\* are as before.
C15_RenameMissingPage ==
  /\ [](\A r \in ReqIds :
          reqs[r].pc \in {"ut_page", "ut_meta"} => PageFound(pageDocs, reqs[r].page))
  /\ [][(/\ lastCall'.op = "UpdatePageTitleByPageIdController"
          /\ lastCall'.ret.kind = "notFound")
         => /\ ~PageFound(pageDocs, lastCall'.page)
            /\ lastCall'.ops = <<>>
            /\ reqs' = reqs
            /\ pageDocs' = pageDocs
            /\ workspaces' = workspaces]_vars
\* a rename of a missing page is refused while another page exists
C15_Witness ==
  /\ lastCall.op = "UpdatePageTitleByPageIdController"
  /\ lastCall.ret.kind = "notFound"
  /\ NoneRunning
  /\ DOMAIN pageDocs # {}
  /\ \E w \in DOMAIN workspaces : PagesOf(workspaces, w) # <<>>

\* the characters after the last '-' of a reference
LastToken(s) ==
  LET dashes == {i \in DOMAIN s : s[i] = "-"}
      k == IF dashes = {} THEN 0 ELSE CHOOSE i \in dashes : \A j \in dashes : j <= i
  IN  SubSeq(s, k + 1, Len(s))
\* a title with every space replaced by '-'
Kebab(title) == [i \in DOMAIN title |-> IF title[i] = " " THEN "-" ELSE title[i]]

\* C16: the reference a rename writes to the workspace metadata is the new
\* title with its space-separated words joined by '-', then '-' and the token
\* after the last '-' of the page's previous reference; so the token after
\* the last '-' of an entry's reference is the same after any number of
\* renames.
C16_ReferenceSuffixKept ==
  /\ [](\A w \in DOMAIN workspaces : \A i \in DOMAIN PagesOf(workspaces, w) :
          LastToken(PagesOf(workspaces, w)[i].reference)
            = <<Digit[PagesOf(workspaces, w)[i].id]>>)
  /\ [][\A r \in ReqIds :
          (/\ reqs[r].pc = "ut_meta"
           /\ reqs'[r].pc = "idle"
           /\ HasPage(PagesOf(workspaces, reqs[r].fetched.workspaceId), reqs[r].page))
          => LET old == PagesOf(workspaces, reqs[r].fetched.workspaceId)
                 new == PagesOf(workspaces', reqs[r].fetched.workspaceId)
                 k == IndexOfPage(old, reqs[r].page)
             IN  /\ new[k].reference
                      = Kebab(reqs[r].title) \o <<"-">> \o LastToken(reqs[r].fetched.reference)
                 /\ LastToken(new[k].reference) = LastToken(old[k].reference)]_vars
\* a page whose reference holds a '-' inside its title part is renamed again
C16_Witness ==
  /\ lastCall.op = "UpdatePageTitleByPageIdController"
  /\ lastCall.ret.kind = "noContent"
  /\ lastCall.existed
  /\ HasPage(PagesOf(workspaces, lastCall.ws), lastCall.page)
  /\ HasField(lastCall.before, "pages")
  /\ HasPage(lastCall.before.pages, lastCall.page)
  /\ lastCall.before.pages[IndexOfPage(lastCall.before.pages, lastCall.page)].title
       = <<"c", "-", "d">>
  /\ lastCall.title = <<"a", " ", "b">>

\* C17: when the Page document that execute has just created is not found
\* by getPageById, execute answers forbidden and ends there: addPage is
\* not called, nothing is retried and nothing is undone. The new workspace
\* stays stored with the creator as its only member and an empty page list,
\* and the user's workspace-access list keeps the link to it.
C17_ForbiddenLeavesWorkspace ==
  [][(/\ lastCall'.op = "CreateWorkspaceController"
      /\ lastCall'.ret.kind = "forbidden")
     => LET w == lastCall'.ws
        IN  /\ ~PageFound(pageDocs, lastCall'.page)
            /\ lastCall'.ops = <<>>
            /\ NoneRunning'
            /\ workspaces' = workspaces
            /\ pageDocs' = pageDocs
            /\ users' = users
            /\ w \in DOMAIN workspaces'
            /\ workspaces'[w] = SetFields(NewWorkspaceData(lastCall'.member),
                                          [createdAt |-> "now"])
            /\ HasAccess(users', lastCall'.member, w)]_vars
\* the second workspace of a user is left without its page
C17_Witness ==
  /\ lastCall.op = "CreateWorkspaceController"
  /\ lastCall.ret.kind = "forbidden"
  /\ lastCall.ws \in DOMAIN workspaces
  /\ workspaces[lastCall.ws].pages = <<>>
  /\ HasAccess(users, lastCall.member, lastCall.ws)
  /\ Len(users[lastCall.member]) = 2
  /\ \A p \in DOMAIN pageDocs : pageDocs[p].workspaceId # lastCall.ws

\* the positions a request moves through, in order
PcOrder ==
  {<<"idle", "cw_link">>, <<"cw_link", "cw_page">>, <<"cw_page", "cw_fetch">>,
   <<"cw_fetch", "cw_add">>, <<"cw_fetch", "idle">>, <<"cw_add", "idle">>,
   <<"idle", "ut_page">>, <<"ut_page", "ut_meta">>, <<"ut_meta", "idle">>}
PagesOfWorkspace(pg, w) == {p \in DOMAIN pg : pg[p].workspaceId = w}

\* C18: workspace creation does its steps in the order create workspace,
\* register it with the user, create the default root page, fetch the page,
\* append the page's summary, answer with the workspace id. In every state
\* on the way each link in a user's workspace-access list names a workspace
\* that was created before, and the summary appended carries the reference,
\* path, icon, title and createdAt of the page as fetched.
C18_CreationOrder ==
  /\ [](\A u \in Users : \A i \in DOMAIN users[u] :
          users[u][i].workspaceId \in minted \cap DOMAIN workspaces)
  /\ [](\A r \in ReqIds :
          LET q == reqs[r]
          IN  /\ q.pc = "cw_link"
                   => /\ q.ws \in DOMAIN workspaces
                      /\ ~HasAccess(users, q.user, q.ws)
                      /\ PagesOfWorkspace(pageDocs, q.ws) = {}
              /\ q.pc = "cw_page"
                   => /\ HasAccess(users, q.user, q.ws)
                      /\ PagesOfWorkspace(pageDocs, q.ws) = {}
              /\ q.pc \in {"cw_fetch", "cw_add"}
                   => /\ HasAccess(users, q.user, q.ws)
                      /\ PagesOfWorkspace(pageDocs, q.ws) = {q.page}
              /\ q.pc = "cw_add" => q.fetched = pageDocs[q.page]
              /\ q.pc \in {"cw_link", "cw_page", "cw_fetch", "cw_add"}
                   => PagesOf(workspaces, q.ws) = <<>>)
  /\ [][\A r \in ReqIds :
          /\ reqs'[r].pc # reqs[r].pc => <<reqs[r].pc, reqs'[r].pc>> \in PcOrder
          /\ (reqs[r].pc = "cw_add" /\ reqs'[r].pc = "idle")
               => LET page == reqs[r].fetched
                  IN  /\ PagesOf(workspaces', reqs[r].ws)
                           = <<[id |-> reqs[r].page, reference |-> page.reference,
                                path |-> page.path, icon |-> page.icon,
                                title |-> page.title, createdAt |-> page.createdAt]>>
                      /\ lastCall'.ret = [kind |-> "created", val |-> reqs[r].ws]]_vars
\* the second creation stands between registering and creating the page
C18_Witness ==
  \E r \in ReqIds :
    /\ reqs[r].pc = "cw_page"
    /\ HasAccess(users, reqs[r].user, reqs[r].ws)
    /\ Len(users[reqs[r].user]) = 2
    /\ PagesOf(workspaces, reqs[r].ws) = <<>>
    /\ Cardinality(DOMAIN workspaces) = 2

\* C19: no add is lost. addMemberByWorkspaceId and addPage are each one
\* atomic add-to-set on the workspace document, so in whatever order calls
\* on the same existing workspace take effect, each call keeps every member
\* and every page entry that was there and adds its own: when all have
\* completed the member set holds every added member and the page list
\* every added entry.
C19_NoLostUpdate ==
  [][(/\ lastCall'.op \in {"addMemberByWorkspaceId", "addPage"}
      /\ lastCall'.ws \in DOMAIN workspaces)
     => LET w == lastCall'.ws
            members == Range(MembersOf(workspaces, w))
            pages == Range(PagesOf(workspaces, w))
        IN  /\ \A v \in DOMAIN workspaces \ {w} :
                 v \in DOMAIN workspaces' /\ workspaces'[v] = workspaces[v]
            /\ lastCall'.op = "addMemberByWorkspaceId"
                 => /\ Range(MembersOf(workspaces', w)) = members \cup {Scalar(lastCall'.member)}
                    /\ Range(PagesOf(workspaces', w)) = pages
            /\ lastCall'.op = "addPage"
                 => /\ Range(MembersOf(workspaces', w)) = members
                    /\ \E e \in SampleEntries :
                         /\ e.id = lastCall'.page
                         /\ e.title = lastCall'.title
                         /\ Range(PagesOf(workspaces', w)) = pages \cup {e}]_vars
\* a workspace that took a member and two entries, the member in between
C19_Witness ==
  /\ lastCall.op = "addPage"
  /\ lastCall.existed
  /\ Len(MembersOf(workspaces, lastCall.ws)) = 2
  /\ Len(PagesOf(workspaces, lastCall.ws)) = 2
  /\ Len(lastCall.before.pages) = 1
  /\ Len(lastCall.before.members) = 2
  /\ Cardinality(DOMAIN workspaces) = MaxWorkspaces

\* page p's workspace lists p under a title that is not the Page document's
Inconsistent(pg, ws, p) ==
  /\ p \in DOMAIN pg
  /\ \E i \in DOMAIN PagesOf(ws, pg[p].workspaceId) :
       /\ PagesOf(ws, pg[p].workspaceId)[i].id = p
       /\ PagesOf(ws, pg[p].workspaceId)[i].title # pg[p].title

\* C20: a Page document and its workspace-metadata entry are not kept
\* consistent across the two writes of a rename. The Page write of a rename
\* changes the Page document only, so whenever the page's entry carries
\* another title than the new one the state between the two writes has a
\* Page title that differs from the entry's; and renames that interleave
\* reach such a state with every request run to completion.
C20_RenameNotAtomic ==
  [][\A r \in ReqIds :
      (reqs[r].pc = "ut_page" /\ reqs'[r].pc = "ut_meta")
      => LET p == reqs[r].page
         IN  /\ workspaces' = workspaces
             /\ pageDocs'[p].title = reqs[r].title
             /\ (\E i \in DOMAIN PagesOf(workspaces, pageDocs[p].workspaceId) :
                    /\ PagesOf(workspaces, pageDocs[p].workspaceId)[i].id = p
                    /\ PagesOf(workspaces, pageDocs[p].workspaceId)[i].title # reqs[r].title)
                  => Inconsistent(pageDocs', workspaces', p)]_vars
\* no request is running and a page's two titles differ
C20_Witness ==
  /\ NoneRunning
  /\ lastCall.op = "UpdatePageTitleByPageIdController"
  /\ lastCall.ret.kind = "noContent"
  /\ Inconsistent(pageDocs, workspaces, lastCall.page)
  /\ pageDocs[lastCall.page].title \in RenameTitles \ {lastCall.title}

\* sub occurs in s
Contains(s, sub) ==
  \E k \in 0..(Len(s) - Len(sub)) : SubSeq(s, k + 1, k + Len(sub)) = sub

\* C21: getChildrensByPageId(w, P.id) matches by containment: with P the
\* first entry of w's page list and page ids unique in it, every entry whose
\* path contains "/,<P.reference>,/" is in the array returned, a deeper
\* descendant included, also when no entry's path equals "/,<P.reference>,/".
C21_ChildrenByContainment ==
  lastCall.op = "getChildrensByPageId" =>
    LET pages == PagesOf(workspaces, lastCall.ws)
    IN  \A j \in DOMAIN pages :
          (/\ \A a, b \in DOMAIN pages : pages[a].id = pages[b].id => a = b
           /\ pages[1].id = lastCall.page
           /\ Contains(pages[j].path, PathQuery(pages[1].reference)))
          => /\ lastCall.ret.kind = "array"
             /\ pages[j] \in Range(lastCall.ret.val)

\* C22: getChildrensByPageId(w, pageId), w a well-formed id, returns null
\* when w's page list holds no entry with that page id, also when no
\* workspace is stored under w; it then stops after the first lookup and
\* changes nothing.
C22_ChildrenOfUnknownPage ==
  (/\ lastCall.op = "getChildrensByPageId"
   /\ isValidObjectId(lastCall.ws)
   /\ ~HasPage(PagesOf(workspaces, lastCall.ws), lastCall.page))
  => /\ lastCall.ret = Null
     /\ lastCall.ops = <<"findOne">>
     /\ (lastCall.ws \in DOMAIN workspaces) = lastCall.existed
     /\ lastCall.existed => workspaces[lastCall.ws] = lastCall.before
\* the workspace holds pages, but not the one asked for
C22_Witness ==
  /\ lastCall.op = "getChildrensByPageId"
  /\ lastCall.existed
  /\ PagesOf(workspaces, lastCall.ws) # <<>>
  /\ ~HasPage(PagesOf(workspaces, lastCall.ws), lastCall.page)
  /\ lastCall.ret = Null

\* the ids of the entries getChildrensByPageId reports, the page itself aside
ChildrenReported(ws, w, p) ==
  {IF o.ret.kind = "array" THEN {e.id : e \in Range(o.ret.val)} \ {p} ELSE {} :
     o \in getChildrensByPageId(ws, w, p)}

\* C23: the materialized paths stay a tree. In every reachable state each
\* reference token in the non-null path of a page-list entry is the
\* reference of an entry of the same list; and a rename of a page leaves the
\* set of children reported for it as it was.
C23_TreeConsistent ==
  /\ []PathsResolve(workspaces)
  /\ [][\A r \in ReqIds :
          (reqs[r].pc = "ut_meta" /\ reqs'[r].pc = "idle")
          => ChildrenReported(workspaces', reqs[r].fetched.workspaceId, reqs[r].page)
               = ChildrenReported(workspaces, reqs[r].fetched.workspaceId, reqs[r].page)]_vars

\* C24: addPage on a well-formed id under which no workspace is stored
\* (never created, or deleted) does not fail: it stores a document under
\* that id that holds the page list with just the given entry and no name,
\* icon or members, and returns it. A page-add that comes after a
\* deleteWorkspace thus leaves a partial workspace.
C24_AddPageUpserts ==
  (/\ lastCall.op = "addPage"
   /\ isValidObjectId(lastCall.ws)
   /\ ~lastCall.existed)
  => /\ lastCall.ret.kind = "doc"
     /\ lastCall.ws \in DOMAIN workspaces
     /\ DOMAIN workspaces[lastCall.ws] = {"pages"}
     /\ Len(workspaces[lastCall.ws].pages) = 1
     /\ workspaces[lastCall.ws].pages[1] \in SampleEntries
     /\ workspaces[lastCall.ws].pages[1].id = lastCall.page
     /\ workspaces[lastCall.ws].pages[1].title = lastCall.title
     /\ lastCall.ret.val = SetField(workspaces[lastCall.ws], "id", lastCall.ws)
\* a workspace that was stored and deleted is back without name and members,
\* next to a whole one
C24_Witness ==
  /\ lastCall.op = "addPage"
  /\ ~lastCall.existed
  /\ lastCall.wasMinted
  /\ lastCall.ws \in DOMAIN workspaces
  /\ ~HasField(workspaces[lastCall.ws], "members")
  /\ \E v \in DOMAIN workspaces : HasField(workspaces[v], "name")

AllGetters == Getters \cup {"getChildrensByPageId"}
Mutations ==
  {"createWorkspace", "addMemberByWorkspaceId", "addPage", "updateWorkspace",
   "removeMemberByWorkspaceId", "removePageByPageId", "deleteWorkspace"}

====
